---- MODULE Spec2Model ----
(***************************************************************************)
(* Metamorphosis engine of echo-taiga                                      *)
(* (src/internal/metamorphosis/system.go, MetamorphosisManager).           *)
(*                                                                         *)
(* Representation of the float64 and time values of the source:           *)
(*   budget values        integers, Units per budget point                 *)
(*   intensity, stability tenths  (0.6 -> 6)                               *)
(*   priority, progress,                                                   *)
(*   thresholds, levels   thousandths (0.25 -> 250)                        *)
(*   wall clock, Duration minutes                                          *)
(*   deltaTime            seconds                                          *)
(* All values used are exact in this representation; float64 rounding is   *)
(* not modelled.                                                           *)
(***************************************************************************)
EXTENDS Integers, Sequences, FiniteSets, TLC

\* ------------------------------------------------------------------------
\* Bounds of the model
\* ------------------------------------------------------------------------
MaxNow == 10
MaxCycles == 1
MaxActions == 1

\* ------------------------------------------------------------------------
\* Program constants
\* ------------------------------------------------------------------------
Units == 2 * 600
InitialBudget == 100 * Units
InitialRegenerationRate == Units \div 2
RebirthBonus == 25 * Units
MaxRecentActions == 100
MaxHistory == 1000
MaxInitialTriggers == 5
ActionWindow == 5
DeathWindow == 10
ZeroTime == -1000000

Min(a, b) == IF a < b THEN a ELSE b

Abs(x) == IF x < 0 THEN -x ELSE x

Orders == 1..5

\* ------------------------------------------------------------------------
\* Inputs: the template files on disk, the objects of the world, the
\* arguments of the notifications
\* ------------------------------------------------------------------------
\* effect.AffectedArea = nil. Places are points of the x axis (a Vector3 with
\* Y = Z = 0) in whole length units.
NoArea == [Type |-> "none", Center |-> 0, CenterY |-> 0, Radius |-> 0, Height |-> 0,
           Falloff |-> "none", FalloffMin |-> 0, FalloffMax |-> 0]

Sphere(center, radius, kind, inner, outer) ==
  [Type |-> "sphere", Center |-> center, CenterY |-> 0, Radius |-> radius,
   Height |-> 0, Falloff |-> kind, FalloffMin |-> inner, FalloffMax |-> outer]

\* A cylinder around the vertical through the point center of the x axis,
\* its middle at the height centerY.
Cylinder(center, centerY, radius, height, kind, inner, outer) ==
  [Type |-> "cylinder", Center |-> center, CenterY |-> centerY, Radius |-> radius,
   Height |-> height, Falloff |-> kind, FalloffMin |-> inner, FalloffMax |-> outer]

NoEffect == [ID |-> "none", Template |-> "none", Order |-> 0, Category |-> "",
             Intensity |-> 0, Duration |-> 0, AppliedTime |-> ZeroTime,
             AffectedTags |-> <<>>, AffectedArea |-> NoArea]

EffectCatalog ==
  { [ID |-> "visual_distortion", Template |-> "visual_distortion", Order |-> 1,
     Category |-> "visual", Intensity |-> 5, Duration |-> 10, AppliedTime |-> ZeroTime,
     AffectedTags |-> <<"visible">>,
     AffectedArea |-> NoArea],
    [ID |-> "slow_rot", Template |-> "slow_rot", Order |-> 1,
     Category |-> "environment", Intensity |-> 10, Duration |-> 6000, AppliedTime |-> ZeroTime,
     AffectedTags |-> <<"plant">>,
     AffectedArea |-> NoArea],
    [ID |-> "twisted_vegetation", Template |-> "twisted_vegetation", Order |-> 2,
     Category |-> "entity", Intensity |-> 6, Duration |-> 0, AppliedTime |-> ZeroTime,
     AffectedTags |-> <<"plant", "tree">>,
     AffectedArea |-> NoArea],
    [ID |-> "gravity_anomaly", Template |-> "gravity_anomaly", Order |-> 2,
     Category |-> "physics", Intensity |-> 6, Duration |-> 300, AppliedTime |-> ZeroTime,
     AffectedTags |-> <<"visible", "plant">>,
     AffectedArea |-> NoArea] }

\* The handlers setupEffectCallbacks installs on a template by category: TRUE
\* when the function field is non-nil. An instance is a copy of its template,
\* handlers included.
OnApply(effect) == effect.Category \in {"visual", "physics", "entity", "audio"}
OnRemove(effect) == effect.Category \in {"visual", "physics"}

EffectTemplateIDs == {t.ID : t \in EffectCatalog}
effectTemplates(id) == CHOOSE t \in EffectCatalog : t.ID = id

TriggerCatalog ==
  { [ID |-> "dawn_trigger", Type |-> "time", Priority |-> 500, MinPhase |-> 1,
     TimeOfDay |-> 250, TimeTolerance |-> 50, ActionType |-> "",
     EventType |-> "", ThresholdType |-> "", ThresholdValue |-> 0,
     ThresholdCompare |-> ""],
    [ID |-> "symbol_discovery_trigger", Type |-> "action", Priority |-> 500,
     MinPhase |-> 1, TimeOfDay |-> 0, TimeTolerance |-> 0,
     ActionType |-> "discover_symbol", EventType |-> "", ThresholdType |-> "",
     ThresholdValue |-> 0, ThresholdCompare |-> ""],
    [ID |-> "player_death_trigger", Type |-> "event", Priority |-> 400,
     MinPhase |-> 1, TimeOfDay |-> 0, TimeTolerance |-> 0, ActionType |-> "",
     EventType |-> "player_death", ThresholdType |-> "", ThresholdValue |-> 0,
     ThresholdCompare |-> ""],
    [ID |-> "anomaly_high_trigger", Type |-> "threshold", Priority |-> 650,
     MinPhase |-> 1, TimeOfDay |-> 0, TimeTolerance |-> 0, ActionType |-> "",
     EventType |-> "", ThresholdType |-> "anomaly_level", ThresholdValue |-> 700,
     ThresholdCompare |-> "greater"] }

TriggerIDs == {t.ID : t \in TriggerCatalog}
triggerTemplates(id) == CHOOSE t \in TriggerCatalog : t.ID = id

Entities == {"o1", "o2"}
Stability == [e \in Entities |-> IF e = "o1" THEN 3 ELSE 8]
EntityTags == [e \in Entities |-> IF e = "o1" THEN {"plant", "tree"} ELSE {"visible"}]
\* TransformComponent.Position of each object.
Position == [e \in Entities |-> IF e = "o1" THEN 0 ELSE 2]

SymbolIDs == {"s1"}
RitualIDs == {"r1"}
AreaIDs == {"a1"}
Levels == {1000}
Weathers == {"clear", "storm"}
ActionTypes == {"discover_symbol"}
DeltaTimes == {0, 120}
ClockStep == 2 * ActionWindow

\* ------------------------------------------------------------------------
\* State
\* ------------------------------------------------------------------------
VARIABLES
  mutex,               \* mm.mutex: "unlocked" or "locked"
  blocked,             \* the entry point waiting on mm.mutex forever, or "none"
  anomalyBudget, maxBudget, regenerationRate,
  transformationPhase, orderThresholds,
  activeEffects,       \* function: instance id -> effect record
  availableTriggers,   \* set of trigger ids in the candidate pool
  worldState,
  changeHistory,
  markers,             \* CurrentMetamorphoses of each object
  stateFile,           \* metamorphosis_state.json under savePath
  isRunning,           \* Game.isRunning: the game loop has not been stopped
  waiting,             \* the call of another thread waiting in mm.mutex.Lock()
  now,                 \* wall clock (time.Now), minutes
  lastOp               \* what the last entry point did (observation only)

vars == <<mutex, blocked, anomalyBudget, maxBudget, regenerationRate,
          transformationPhase, orderThresholds, activeEffects,
          availableTriggers, worldState, changeHistory, markers, stateFile,
          isRunning, waiting, now, lastOp>>

\* The manager as one record, threaded through the operators below the way
\* the receiver mm is threaded through the methods of the source.
mm == [mutex |-> mutex, blocked |-> blocked, anomalyBudget |-> anomalyBudget,
       maxBudget |-> maxBudget, regenerationRate |-> regenerationRate,
       transformationPhase |-> transformationPhase,
       orderThresholds |-> orderThresholds, activeEffects |-> activeEffects,
       availableTriggers |-> availableTriggers, worldState |-> worldState,
       changeHistory |-> changeHistory, markers |-> markers,
       stateFile |-> stateFile, isRunning |-> isRunning, err |-> FALSE,
       considered |-> <<>>, expired |-> {}, afterRegen |-> anomalyBudget,
       calls |-> <<>>]

Commit(m) ==
  /\ mutex' = m.mutex
  /\ blocked' = m.blocked
  /\ anomalyBudget' = m.anomalyBudget
  /\ maxBudget' = m.maxBudget
  /\ regenerationRate' = m.regenerationRate
  /\ transformationPhase' = m.transformationPhase
  /\ orderThresholds' = m.orderThresholds
  /\ activeEffects' = m.activeEffects
  /\ availableTriggers' = m.availableTriggers
  /\ worldState' = m.worldState
  /\ changeHistory' = m.changeHistory
  /\ markers' = m.markers
  /\ stateFile' = m.stateFile
  /\ isRunning' = m.isRunning

\* mm.mutex.Lock() at the top of an entry point called with the lock free,
\* and the deferred mm.mutex.Unlock(), which runs only if the body returned.
Lock(m) == [m EXCEPT !.mutex = "locked"]
Unlock(m) == IF m.blocked = "none" THEN [m EXCEPT !.mutex = "unlocked"] ELSE m

\* ------------------------------------------------------------------------
\* Helpers
\* ------------------------------------------------------------------------
RECURSIVE SeqOf(_)
SeqsOf(S) == {q \in [1..Cardinality(S) -> S] : \A x \in S : \E i \in DOMAIN q : q[i] = x}
SeqOf(S) == IF S = {} THEN <<>> ELSE LET x == CHOOSE y \in S : TRUE IN <<x>> \o SeqOf(S \ {x})

Range(q) == {q[i] : i \in DOMAIN q}

RECURSIVE SumOver(_, _)
SumOver(f, S) == IF S = {} THEN 0
                 ELSE LET x == CHOOSE y \in S : TRUE IN f[x] + SumOver(f, S \ {x})

containsString(slice, str) == \E i \in DOMAIN slice : slice[i] = str

RECURSIVE removeString(_, _)
removeString(slice, str) ==
  IF slice = <<>> THEN <<>>
  ELSE IF Head(slice) = str THEN removeString(Tail(slice), str)
       ELSE <<Head(slice)>> \o removeString(Tail(slice), str)

HistoryEntry(effectID, action, entityID) ==
  [EffectID |-> effectID, Action |-> action, EntityID |-> entityID]

NoID == <<"", 0>>

\* A call of a handler of an instance on an object; nothing is called when
\* the function field is nil.
Call(handler, effectID, entityID) ==
  [Handler |-> handler, EffectID |-> effectID, EntityID |-> entityID]

invoke(m, present, handler, effectID, entityID) ==
  IF present THEN [m EXCEPT !.calls = Append(@, Call(handler, effectID, entityID))]
  ELSE m

\* Variant: a full log keeps its oldest entries and drops the new one.
recordHistoryEntryKeepsOldest(m, effectID, action, entityID) ==
  LET h == Append(m.changeHistory, HistoryEntry(effectID, action, entityID))
  IN [m EXCEPT !.changeHistory =
        IF Len(h) > MaxHistory THEN SubSeq(h, 1, MaxHistory) ELSE h]

recordHistoryEntry(m, effectID, action, entityID) ==
  LET h == Append(m.changeHistory, HistoryEntry(effectID, action, entityID))
  IN [m EXCEPT !.changeHistory =
        IF Len(h) > MaxHistory THEN SubSeq(h, Len(h) - MaxHistory + 1, Len(h)) ELSE h]

\* ------------------------------------------------------------------------
\* Budget ledger
\* ------------------------------------------------------------------------
\* Variant: a permanent effect is charged like one that lasts no time.
getEffectCostNoSurcharge(effect) ==
  LET baseCost == effect.Order * 10 * Units
      cost == (baseCost * effect.Intensity) \div 10
  IN cost + (cost * effect.Duration) \div 600

getEffectCost(effect) ==
  LET baseCost == effect.Order * 10 * Units
      cost == (baseCost * effect.Intensity) \div 10
  IN IF effect.Duration = 0 THEN (cost * 15) \div 10
     ELSE cost + (cost * effect.Duration) \div 600

\* Variant: affordability judged on the base cost of the order alone.
canAffordEffectBaseCost(m, effect) == m.anomalyBudget >= effect.Order * 10 * Units

canAffordEffect(m, effect) == m.anomalyBudget >= getEffectCost(effect)

\* Variant: regeneration without the clamp to maxBudget.
updateAnomalyBudgetUnclamped(m, deltaTime) ==
  [m EXCEPT !.anomalyBudget = m.anomalyBudget + (m.regenerationRate * deltaTime) \div 60]

\* Variant: deltaTime taken as minutes, without the division by 60.
updateAnomalyBudgetMinutes(m, deltaTime) ==
  [m EXCEPT !.anomalyBudget =
      Min(m.maxBudget, m.anomalyBudget + m.regenerationRate * deltaTime)]

updateAnomalyBudget(m, deltaTime) ==
  LET regenerationAmount == (m.regenerationRate * deltaTime) \div 60
  IN [m EXCEPT !.anomalyBudget = Min(m.maxBudget, m.anomalyBudget + regenerationAmount)]

\* ------------------------------------------------------------------------
\* Progression gate
\* ------------------------------------------------------------------------
getTransformationProgress(m) ==
  LET ws == m.worldState
      symbolProgress == Min(1000, (Len(ws.DiscoveredSymbols) * 1000) \div 20)
      ritualProgress == Min(1000, (Len(ws.CompletedRituals) * 1000) \div 10)
      cycleProgress == Min(1000, (ws.Cycles * 1000) \div 5)
      anomalyProgress == ws.AnomalyLevel
  IN (symbolProgress * 3 + ritualProgress * 3 + cycleProgress * 2 + anomalyProgress * 2) \div 10

\* Variant: every order that has a threshold is allowed, whatever the progress.
isOrderAllowedAnyProgress(m, order) == order \in DOMAIN m.orderThresholds

isOrderAllowed(m, order) ==
  /\ order \in DOMAIN m.orderThresholds
  /\ getTransformationProgress(m) >= m.orderThresholds[order]

\* SetTransformationPhase takes mm.mutex itself: called with the lock held it
\* waits forever, before any assignment.
SetTransformationPhase(m, phase) ==
  IF m.mutex = "locked" THEN [m EXCEPT !.blocked = "SetTransformationPhase"]
  ELSE [m EXCEPT !.transformationPhase = phase,
                 !.worldState.TransformationPhase = phase,
                 !.orderThresholds = [o \in Orders |->
                     IF o >= 2 /\ phase >= o THEN 0 ELSE m.orderThresholds[o]]]

\* Variant: the phase is derived from the progress alone and assigned in
\* place, without the comparison with the current phase.
checkTransformationPhaseProgressDerived(m) ==
  LET progress == getTransformationProgress(m)
      newPhase == IF progress >= 900 THEN 5 ELSE IF progress >= 700 THEN 4
                  ELSE IF progress >= 500 THEN 3 ELSE IF progress >= 250 THEN 2
                  ELSE 1
  IN [m EXCEPT !.transformationPhase = newPhase]

checkTransformationPhaseProgress(m) ==
  LET progress == getTransformationProgress(m)
      newPhase == IF progress >= 900 /\ m.transformationPhase < 5 THEN 5
                  ELSE IF progress >= 700 /\ m.transformationPhase < 4 THEN 4
                  ELSE IF progress >= 500 /\ m.transformationPhase < 3 THEN 3
                  ELSE IF progress >= 250 /\ m.transformationPhase < 2 THEN 2
                  ELSE m.transformationPhase
  IN IF newPhase > m.transformationPhase
     THEN LET m2 == SetTransformationPhase(m, newPhase)
          IN IF m2.blocked # "none" THEN m2
             ELSE recordHistoryEntry(m2, NoID, "phase_change", "")
     ELSE m

updateGlobalAnomalyLevel(m) ==
  LET levels == m.worldState.LocalAnomalyLevels
      contrib == [id \in DOMAIN m.activeEffects |-> m.activeEffects[id].Intensity * 20]
      totalLevel == SumOver(levels, DOMAIN levels) + SumOver(contrib, DOMAIN contrib)
      count == Cardinality(DOMAIN levels) + Cardinality(DOMAIN contrib)
  IN [m EXCEPT !.worldState.AnomalyLevel =
        IF count > 0 THEN Min(1000, totalLevel \div count) ELSE 0]

\* ------------------------------------------------------------------------
\* Objects and matching (effects without a region)
\* ------------------------------------------------------------------------
\* rand.Float64() < mutationChance; coin is the outcome of the draw when the
\* chance is strictly between 0 and 1.
CanMutate(entity, metamorphStrength, coin) ==
  IF Stability[entity] >= 10 THEN FALSE
  ELSE LET mutationChance == metamorphStrength * (10 - Stability[entity])
       IN IF mutationChance >= 100 THEN TRUE
          ELSE IF mutationChance <= 0 THEN FALSE
          ELSE coin

ApplyMetamorphosis(m, entity, metamorphID) ==
  [m EXCEPT !.markers[entity] = Append(@, metamorphID)]

\* Vector3.Distance for points of the x axis.
Distance(a, b) == Abs(a - b)

\* Falloff weights are in ten-thousandths, the normalized distance in tenths.
FullWeight == 10000
MinWeight == 500

\* math.Exp(-3.0 * n) for n = 0, 0.1, .., 1, to the nearest ten-thousandth.
ExpMinus3 == <<10000, 7408, 5488, 4066, 3012, 2231, 1653, 1225, 907, 672, 498>>

normalizedDistance(area, distance) ==
  LET n == ((distance - area.FalloffMin) * 10) \div (area.FalloffMax - area.FalloffMin)
  IN Min(10, IF n < 0 THEN 0 ELSE n)

\* Variant: the weight grows with the distance.
falloffRising(area, distance) ==
  IF area.Falloff = "none" \/ ~(distance > area.FalloffMin) THEN FullWeight
  ELSE normalizedDistance(area, distance) * (FullWeight \div 10)

\* Variant: the weight is cut off at the outer distance only.
falloffFlat(area, distance) ==
  IF area.Falloff = "none" \/ ~(distance > area.FalloffMax) THEN FullWeight
  ELSE 0

\* The local falloff of the sphere branch; an object not beyond FalloffMin, or
\* in an area without falloff, is not attenuated.
falloff(area, distance) ==
  IF area.Falloff = "none" \/ ~(distance > area.FalloffMin) THEN FullWeight
  ELSE LET n == normalizedDistance(area, distance)
       IN CASE area.Falloff = "linear" -> FullWeight - n * (FullWeight \div 10)
            [] area.Falloff = "quadratic" -> FullWeight - n * n * (FullWeight \div 100)
            [] area.Falloff = "exponential" -> ExpMinus3[n + 1]
            [] OTHER -> FullWeight - n * (FullWeight \div 10)

\* Variant: the cylinder weighs the object as the sphere does.
isEntityAffectedByEffectWeighted(entity, effect) ==
  LET area == effect.AffectedArea
      distance == Distance(Position[entity], area.Center)
  IN /\ Len(effect.AffectedTags) > 0 => \E i \in DOMAIN effect.AffectedTags :
                                           effect.AffectedTags[i] \in EntityTags[entity]
     /\ area.Type = "sphere" =>
           /\ ~(distance > area.Radius)
           /\ ~(falloff(area, distance) < MinWeight)
     /\ area.Type = "cylinder" =>
           /\ ~(distance > area.Radius \/ 2 * Abs(0 - area.CenterY) > area.Height)
           /\ ~(falloff(area, distance) < MinWeight)

\* Every object has a TransformComponent and stands at height 0 on the x
\* axis, so the horizontal distance of the cylinder branch is the distance
\* along the axis; of the area types the box does not occur in the inputs.
isEntityAffectedByEffect(entity, effect) ==
  LET area == effect.AffectedArea
      distance == Distance(Position[entity], area.Center)
  IN /\ Len(effect.AffectedTags) > 0 => \E i \in DOMAIN effect.AffectedTags :
                                           effect.AffectedTags[i] \in EntityTags[entity]
     /\ area.Type = "sphere" =>
           /\ ~(distance > area.Radius)
           /\ ~(falloff(area, distance) < MinWeight)
     /\ area.Type = "cylinder" =>
           ~(distance > area.Radius \/ 2 * Abs(0 - area.CenterY) > area.Height)

\* The objects of the world: those with a MetamorphicComponent (Entities)
\* and a tagged one without it.
Objects == Entities \cup {"o3"}
ObjectTags == [e \in Objects |-> IF e \in Entities THEN EntityTags[e] ELSE {"plant"}]
HasMetamorphicComponent(e) == e \in Entities

\* World.GetEntitiesWithTag, in the iteration order of the tag index.
GetEntitiesWithTag(tag, entityOrder) ==
  SelectSeq(entityOrder \o SeqOf(Objects \ Entities), LAMBDA e : tag \in ObjectTags[e])

\* Variant: the tagged objects are taken without the test for the component.
RECURSIVE entitiesByTagsUnfiltered(_, _)
entitiesByTagsUnfiltered(tags, entityOrder) ==
  IF tags = <<>> THEN <<>>
  ELSE GetEntitiesWithTag(Head(tags), entityOrder)
       \o entitiesByTagsUnfiltered(Tail(tags), entityOrder)

RECURSIVE entitiesByTags(_, _)
entitiesByTags(tags, entityOrder) ==
  IF tags = <<>> THEN <<>>
  ELSE SelectSeq(GetEntitiesWithTag(Head(tags), entityOrder), HasMetamorphicComponent)
       \o entitiesByTags(Tail(tags), entityOrder)

\* entityOrder: the iteration order of the ECS index maps in this call.
getEntitiesForEffect(effect, entityOrder) ==
  IF effect.AffectedArea # NoArea
  THEN SelectSeq(entityOrder, LAMBDA e : isEntityAffectedByEffect(e, effect))
  ELSE IF Len(effect.AffectedTags) = 0 THEN entityOrder
  ELSE entitiesByTags(effect.AffectedTags, entityOrder)

\* ------------------------------------------------------------------------
\* Admission and removal
\* ------------------------------------------------------------------------
RECURSIVE applyToEntities(_, _, _, _)
applyToEntities(m, effect, entities, coin) ==
  IF entities = <<>> THEN m
  ELSE LET entity == Head(entities)
           m2 == IF CanMutate(entity, effect.Intensity, coin[entity])
                 THEN recordHistoryEntry(
                        invoke(ApplyMetamorphosis(m, entity, effect.ID),
                               OnApply(effect), "OnApply", effect.ID, entity),
                        effect.ID, "applied", entity)
                 ELSE m
       IN applyToEntities(m2, effect, Tail(entities), coin)

\* Variant: admission without taking mm.mutex again.
applyMetamorphEffectNoLock(m, effect, entityOrder, coin) ==
  LET stamped == [effect EXCEPT !.AppliedTime = now]
      m1 == [m EXCEPT
               !.activeEffects = [id \in DOMAIN m.activeEffects \cup {effect.ID} |->
                   IF id = effect.ID THEN stamped ELSE m.activeEffects[id]],
               !.anomalyBudget = m.anomalyBudget - getEffectCost(effect)]
      m2 == recordHistoryEntry(m1, effect.ID, "created", "")
  IN applyToEntities(m2, stamped, getEntitiesForEffect(stamped, entityOrder), coin)

\* applyMetamorphEffect begins with mm.mutex.Lock(): when the caller already
\* holds mm.mutex the call waits forever and nothing below the Lock runs.
applyMetamorphEffect(m, effect, entityOrder, coin) ==
  IF m.mutex = "locked" THEN [m EXCEPT !.blocked = "applyMetamorphEffect"]
  ELSE LET stamped == [effect EXCEPT !.AppliedTime = now]
           m1 == [Lock(m) EXCEPT
                    !.activeEffects = [id \in DOMAIN m.activeEffects \cup {effect.ID} |->
                        IF id = effect.ID THEN stamped ELSE m.activeEffects[id]],
                    !.anomalyBudget = m.anomalyBudget - getEffectCost(effect)]
           m2 == recordHistoryEntry(m1, effect.ID, "created", "")
           m3 == applyToEntities(m2, stamped,
                                 getEntitiesForEffect(stamped, entityOrder), coin)
       IN Unlock(checkTransformationPhaseProgress(m3))

RECURSIVE removeFromEntities(_, _, _)
removeFromEntities(m, effectID, entities) ==
  IF entities = <<>> THEN m
  ELSE LET entity == Head(entities)
           m2 == IF containsString(m.markers[entity], effectID)
                 THEN recordHistoryEntry(
                        invoke([m EXCEPT !.markers[entity] = removeString(@, effectID)],
                               OnRemove(m.activeEffects[effectID]), "OnRemove",
                               effectID, entity),
                        effectID, "removed", entity)
                 ELSE m
       IN removeFromEntities(m2, effectID, Tail(entities))

\* Variant: the instance is not deleted from the live map.
removeMetamorphEffectKeepsEntry(m, effectID, entityOrder) ==
  IF effectID \notin DOMAIN m.activeEffects THEN m
  ELSE LET effect == m.activeEffects[effectID]
           m1 == removeFromEntities(m, effectID, entityOrder)
           m2 == [m1 EXCEPT
                    !.anomalyBudget = Min(m.maxBudget,
                                          m1.anomalyBudget + getEffectCost(effect) \div 2),
                    !.expired = @ \cup {effectID}]
       IN recordHistoryEntry(m2, effectID, "removed", "")

\* Variant: removal credits the whole cost back.
removeMetamorphEffectFullRefund(m, effectID, entityOrder) ==
  IF effectID \notin DOMAIN m.activeEffects THEN m
  ELSE LET effect == m.activeEffects[effectID]
           m1 == removeFromEntities(m, effectID, entityOrder)
           m2 == [m1 EXCEPT
                    !.activeEffects = [id \in DOMAIN m.activeEffects \ {effectID} |->
                                         m.activeEffects[id]],
                    !.anomalyBudget = Min(m.maxBudget,
                                          m1.anomalyBudget + getEffectCost(effect)),
                    !.expired = @ \cup {effectID}]
       IN recordHistoryEntry(m2, effectID, "removed", "")

removeMetamorphEffect(m, effectID, entityOrder) ==
  IF effectID \notin DOMAIN m.activeEffects THEN m
  ELSE LET effect == m.activeEffects[effectID]
           m1 == removeFromEntities(m, effectID, entityOrder)
           m2 == [m1 EXCEPT
                    !.activeEffects = [id \in DOMAIN m.activeEffects \ {effectID} |->
                                         m.activeEffects[id]],
                    !.anomalyBudget = Min(m.maxBudget,
                                          m1.anomalyBudget + getEffectCost(effect) \div 2),
                    !.expired = @ \cup {effectID}]
       IN recordHistoryEntry(m2, effectID, "removed", "")

\* ------------------------------------------------------------------------
\* Trigger evaluation and scheduling
\* ------------------------------------------------------------------------
\* trigger.Check as set by setupTriggerCheck, for the trigger kinds of the
\* catalog; state is mm.worldState.
Check(trigger, state) ==
  LET phaseOK == state.TransformationPhase >= trigger.MinPhase
  IN CASE trigger.Type = "time" ->
            LET d == Abs(state.TimeOfDay - trigger.TimeOfDay)
                timeDiff == IF d > 500 THEN 1000 - d ELSE d
            IN timeDiff <= trigger.TimeTolerance /\ phaseOK
       [] trigger.Type = "action" ->
            /\ \E i \in DOMAIN state.RecentPlayerActions :
                  /\ state.RecentPlayerActions[i].Type = trigger.ActionType
                  /\ now - state.RecentPlayerActions[i].Timestamp <= ActionWindow
            /\ phaseOK
       [] trigger.Type = "event" ->
            /\ trigger.EventType = "player_death"
            /\ state.LastPlayerDeath # ZeroTime
            /\ now - state.LastPlayerDeath <= DeathWindow
            /\ phaseOK
       [] trigger.Type = "threshold" ->
            /\ trigger.ThresholdType = "anomaly_level"
            /\ CASE trigger.ThresholdCompare = "greater" ->
                      state.AnomalyLevel > trigger.ThresholdValue
                 [] trigger.ThresholdCompare = "less" ->
                      state.AnomalyLevel < trigger.ThresholdValue
                 [] OTHER -> FALSE
            /\ phaseOK
       [] OTHER -> FALSE

\* Variant: the order follows the priority alone.
getEffectOrderForTriggerByPriority(trigger) ==
  IF trigger.Priority >= 950 THEN 5
  ELSE IF trigger.Priority >= 850 THEN 4
  ELSE IF trigger.Priority >= 750 THEN 3
  ELSE IF trigger.Priority >= 600 THEN 2
  ELSE 1

getEffectOrderForTrigger(trigger) ==
  LET minPhase == trigger.MinPhase
  IN IF minPhase >= 5 \/ trigger.Priority >= 950 THEN 5
     ELSE IF minPhase >= 4 \/ trigger.Priority >= 850 THEN 4
     ELSE IF minPhase >= 3 \/ trigger.Priority >= 750 THEN 3
     ELSE IF minPhase >= 2 \/ trigger.Priority >= 600 THEN 2
     ELSE 1

suitableTemplates(order) == {t \in EffectCatalog : t.Order = order}

\* The instance selectEffectForTrigger returns when rand.Intn picks template
\* pick: a copy of the template with a generated id; nil when no template
\* has the order.
selectEffectForTrigger(trigger, pick) ==
  IF suitableTemplates(getEffectOrderForTrigger(trigger)) = {} THEN NoEffect
  ELSE [effectTemplates(pick) EXCEPT !.ID = <<pick, now>>]

\* Variant: the comparison of the sort reversed (ascending priority).
sortByPriorityAscending(fired) ==
  {q \in SeqsOf(fired) :
     \A i, j \in DOMAIN q :
        i < j => triggerTemplates(q[i]).Priority <= triggerTemplates(q[j]).Priority}

\* The results sort.Slice may leave in potentialTriggers: the fired triggers
\* in descending priority, equal priorities in any order.
sortByPriority(fired) ==
  {q \in SeqsOf(fired) :
     \A i, j \in DOMAIN q :
        i < j => triggerTemplates(q[i]).Priority >= triggerTemplates(q[j]).Priority}

potentialTriggers(m) ==
  {id \in m.availableTriggers : Check(triggerTemplates(id), m.worldState)}

Considered(trigger, effect, outcome) ==
  [Trigger |-> trigger, Template |-> effect.Template, Cost |-> getEffectCost(effect),
   Outcome |-> outcome]

\* The loop of checkTriggers over the sorted triggers; picks[id] is the
\* template drawn for trigger id.
RECURSIVE activateTriggers(_, _, _, _, _)
activateTriggers(m, sorted, picks, entityOrder, coin) ==
  IF sorted = <<>> THEN m
  ELSE
    LET id == Head(sorted)
        trigger == triggerTemplates(id)
        effectOrder == getEffectOrderForTrigger(trigger)
        effect == selectEffectForTrigger(trigger, picks[id])
        skip(outcome) ==
          activateTriggers(
            [m EXCEPT !.considered = Append(@, Considered(id, effect, outcome))],
            Tail(sorted), picks, entityOrder, coin)
    IN IF ~isOrderAllowed(m, effectOrder) THEN skip("order_not_allowed")
       ELSE IF effect = NoEffect THEN skip("no_template")
       ELSE IF canAffordEffect(m, effect)
       THEN LET m1 == [m EXCEPT !.considered =
                          Append(@, Considered(id, effect, "admit"))]
                m2 == applyMetamorphEffect(m1, effect, entityOrder, coin)
            IN IF m2.blocked # "none" THEN m2
               ELSE [m2 EXCEPT !.availableTriggers = @ \ {id}]
       ELSE skip("unaffordable")

\* Variant: every trigger the loop looked at is deleted from the pool,
\* whether or not its effect was affordable.
checkTriggersDiscard(m, sorted, picks, entityOrder, coin) ==
  LET r == activateTriggers(m, sorted, picks, entityOrder, coin)
  IN [r EXCEPT !.availableTriggers =
        @ \ {r.considered[i].Trigger : i \in DOMAIN r.considered}]

\* Variant: the scheduler refills the pool from the trigger templates.
checkTriggersRestock(m, sorted, picks, entityOrder, coin) ==
  LET r == activateTriggers(m, sorted, picks, entityOrder, coin)
  IN [r EXCEPT !.availableTriggers = @ \cup TriggerIDs]

checkTriggers(m, sorted, picks, entityOrder, coin) ==
  activateTriggers(m, sorted, picks, entityOrder, coin)

\* ------------------------------------------------------------------------
\* Registry update and reconcile pass
\* ------------------------------------------------------------------------
\* Variant: the expiry test without the exemption of duration 0.
RECURSIVE updateActiveEffectsNoExemption(_, _, _)
updateActiveEffectsNoExemption(m, effectOrder, entityOrder) ==
  IF effectOrder = <<>> THEN m
  ELSE LET id == Head(effectOrder)
           effect == m.activeEffects[id]
           m2 == IF now - effect.AppliedTime >= effect.Duration
                 THEN removeMetamorphEffect(m, id, entityOrder)
                 ELSE m
       IN updateActiveEffectsNoExemption(m2, Tail(effectOrder), entityOrder)

RECURSIVE updateActiveEffects(_, _, _)
updateActiveEffects(m, effectOrder, entityOrder) ==
  IF effectOrder = <<>> THEN m
  ELSE LET id == Head(effectOrder)
           effect == m.activeEffects[id]
           m2 == IF effect.Duration > 0 /\ now - effect.AppliedTime >= effect.Duration
                 THEN removeMetamorphEffect(m, id, entityOrder)
                 ELSE m
       IN updateActiveEffects(m2, Tail(effectOrder), entityOrder)

\* Variant: the object is also marked with the instances of the snapshot that
\* are no longer live.
applyLiveGone(m, entity, effectOrder, coin) ==
  LET gone == {id \in {<<"gravity_anomaly", 1>>} :
                 /\ id \notin DOMAIN m.activeEffects
                 /\ isEntityAffectedByEffect(entity, effectTemplates(id[1]))}
  IN [m EXCEPT !.markers[entity] = @ \o SeqOf(gone)]

\* Variant: the apply loop without the test for an existing marker.
RECURSIVE applyLiveUnchecked(_, _, _, _)
applyLiveUnchecked(m, entity, effectOrder, coin) ==
  IF effectOrder = <<>> THEN m
  ELSE LET effectID == Head(effectOrder)
           effect == m.activeEffects[effectID]
           m2 == IF /\ isEntityAffectedByEffect(entity, effect)
                    /\ CanMutate(entity, effect.Intensity, coin[entity])
                 THEN recordHistoryEntry(
                        invoke(ApplyMetamorphosis(m, entity, effectID),
                               OnApply(effect), "OnApply", effectID, entity),
                        effectID, "applied", entity)
                 ELSE m
       IN applyLiveUnchecked(m2, entity, Tail(effectOrder), coin)

RECURSIVE applyLive(_, _, _, _)
applyLive(m, entity, effectOrder, coin) ==
  IF effectOrder = <<>> THEN m
  ELSE LET effectID == Head(effectOrder)
           effect == m.activeEffects[effectID]
           m2 == IF /\ isEntityAffectedByEffect(entity, effect)
                    /\ ~containsString(m.markers[entity], effectID)
                    /\ CanMutate(entity, effect.Intensity, coin[entity])
                 THEN recordHistoryEntry(
                        invoke(ApplyMetamorphosis(m, entity, effectID),
                               OnApply(effect), "OnApply", effectID, entity),
                        effectID, "applied", entity)
                 ELSE m
       IN applyLive(m2, entity, Tail(effectOrder), coin)

RECURSIVE dropStale(_, _, _)
dropStale(m, entity, current) ==
  IF current = <<>> THEN m
  ELSE LET effectID == Head(current)
           m2 == IF effectID \notin DOMAIN m.activeEffects
                 THEN recordHistoryEntry(
                        [m EXCEPT !.markers[entity] = removeString(@, effectID)],
                        effectID, "removed", entity)
                 ELSE m
       IN dropStale(m2, entity, Tail(current))

RECURSIVE applyEffectsToEntities(_, _, _, _)
applyEffectsToEntities(m, entities, effectOrder, coin) ==
  IF entities = <<>> THEN m
  ELSE LET entity == Head(entities)
           m2 == IF Stability[entity] >= 10 THEN m
                 ELSE LET m1 == applyLive(m, entity, effectOrder, coin)
                      IN dropStale(m1, entity, m1.markers[entity])
       IN applyEffectsToEntities(m2, Tail(entities), effectOrder, coin)

\* ------------------------------------------------------------------------
\* Construction, Init, snapshot load
\* ------------------------------------------------------------------------
\* ActiveEffects: the map worldState.ActiveEffects refers to, its own (empty)
\* map or, once updateWorldState has run, mm.activeEffects itself.
DefaultWorldState ==
  [TimeOfDay |-> 250, TransformationPhase |-> 1, ActiveEffects |-> "own",
   AnomalyLevel |-> 0,
   RecentPlayerActions |-> <<>>, DiscoveredSymbols |-> <<>>,
   CompletedRituals |-> <<>>, LocalAnomalyLevels |-> <<>>, Weather |-> "clear",
   LastPlayerDeath |-> ZeroTime, Cycles |-> 0]

\* No metamorphosis_state.json under savePath.
MissingFile ==
  [Status |-> "missing",
   State |-> [AnomalyBudget |-> 0, MaxBudget |-> 0, RegenerationRate |-> 0,
              TransformationPhase |-> 0, ActiveEffects |-> <<>>,
              WorldState |-> DefaultWorldState]]

NewMetamorphosisManager ==
  [mutex |-> "unlocked", blocked |-> "none", anomalyBudget |-> InitialBudget,
   maxBudget |-> InitialBudget, regenerationRate |-> InitialRegenerationRate,
   transformationPhase |-> 1,
   orderThresholds |-> [o \in Orders |->
       CASE o = 1 -> 0 [] o = 2 -> 250 [] o = 3 -> 500 [] o = 4 -> 750 [] o = 5 -> 900],
   activeEffects |-> <<>>, availableTriggers |-> {},
   worldState |-> DefaultWorldState, changeHistory |-> <<>>,
   markers |-> [e \in Entities |-> <<>>],
   stateFile |-> MissingFile, isRunning |-> TRUE, err |-> FALSE,
   considered |-> <<>>, expired |-> {}, afterRegen |-> InitialBudget,
   calls |-> <<>>]

\* pool: the triggers generateInitialTriggers takes from the loaded trigger
\* templates.
InitializeDefaultState(m, pool) ==
  [m EXCEPT !.transformationPhase = 1, !.anomalyBudget = InitialBudget,
            !.maxBudget = InitialBudget,
            !.regenerationRate = InitialRegenerationRate,
            !.worldState = DefaultWorldState, !.availableTriggers = pool]

generateInitialTriggers(templates) ==
  {pool \in SUBSET templates :
      Cardinality(pool) = Min(MaxInitialTriggers, Cardinality(templates))}

\* os.Stat and json.Unmarshal of LoadState: the error returned for a missing
\* file or one that does not parse.
LoadStateError(file) == file.Status # "ok"

\* Variant: the engine fields are assigned from what was decoded before the
\* error is looked at.
LoadStateUnchecked(m, file) ==
  LET state == file.State
      known == {id \in DOMAIN state.ActiveEffects :
                   state.ActiveEffects[id] \in EffectTemplateIDs}
  IN [m EXCEPT !.anomalyBudget = state.AnomalyBudget,
               !.maxBudget = state.MaxBudget,
               !.regenerationRate = state.RegenerationRate,
               !.transformationPhase = state.TransformationPhase,
               !.worldState = state.WorldState,
               !.activeEffects = [id \in known |->
                   [effectTemplates(state.ActiveEffects[id]) EXCEPT !.ID = id]]]

LoadState(m, file) ==
  IF LoadStateError(file) THEN m
  ELSE
  LET state == file.State
      known == {id \in DOMAIN state.ActiveEffects :
                   state.ActiveEffects[id] \in EffectTemplateIDs}
  IN [m EXCEPT !.anomalyBudget = state.AnomalyBudget,
               !.maxBudget = state.MaxBudget,
               !.regenerationRate = state.RegenerationRate,
               !.transformationPhase = state.TransformationPhase,
               !.worldState = state.WorldState,
               !.activeEffects = [id \in known |->
                   [effectTemplates(state.ActiveEffects[id]) EXCEPT !.ID = id]]]

\* json.MarshalIndent of the serialized state fails when a value of
\* worldState.ActiveEffects has to be encoded: MetamorphEffect has fields of
\* function type.
marshalFails(m) ==
  m.worldState.ActiveEffects = "live" /\ DOMAIN m.activeEffects # {}

\* The template SaveState records for a live instance: one with the
\* instance's name, order and category; instances without one are left out.
matchingTemplates(effect) ==
  {t \in EffectCatalog : /\ t.Template = effect.Template
                         /\ t.Order = effect.Order
                         /\ t.Category = effect.Category}

SaveState(m) ==
  LET matched == {id \in DOMAIN m.activeEffects :
                    matchingTemplates(m.activeEffects[id]) # {}}
      state == [AnomalyBudget |-> m.anomalyBudget, MaxBudget |-> m.maxBudget,
                RegenerationRate |-> m.regenerationRate,
                TransformationPhase |-> m.transformationPhase,
                ActiveEffects |-> [id \in matched |->
                    (CHOOSE t \in matchingTemplates(m.activeEffects[id]) : TRUE).ID],
                WorldState |-> [m.worldState EXCEPT !.ActiveEffects = "own"]]
  IN IF marshalFails(m) THEN [m EXCEPT !.err = TRUE]
     ELSE [m EXCEPT !.stateFile = [Status |-> "ok", State |-> state]]

\* The snapshot files of the model.
SavedIDs == {<<"gravity_anomaly", 1>>, <<"twisted_vegetation", 1>>}

Snapshot(budget, rate, live) ==
  [AnomalyBudget |-> budget, MaxBudget |-> InitialBudget, RegenerationRate |-> rate,
   TransformationPhase |-> 1, ActiveEffects |-> [id \in live |-> id[1]],
   WorldState |-> DefaultWorldState]

Snapshots ==
  {Snapshot(82 * Units, 9 * InitialRegenerationRate, SavedIDs),
   Snapshot(100 * Units, InitialRegenerationRate, {<<"gravity_anomaly", 1>>}),
   Snapshot(91 * Units, 9 * InitialRegenerationRate, {}),
   [Snapshot(100 * Units, InitialRegenerationRate, {}) EXCEPT
      !.TransformationPhase = 2, !.WorldState.TransformationPhase = 2]}

\* The trigger template files of the model.
TriggerTemplateSets ==
  {{"dawn_trigger", "player_death_trigger"},
   {"symbol_discovery_trigger", "anomaly_high_trigger"}}

\* No thread waits for the lock.
NoCall == [name |-> "none", arg |-> "none"]

NoOp == [name |-> "Init", deltaTime |-> 0, before |-> 0, afterRegen |-> 0,
         fired |-> {}, considered |-> <<>>, expired |-> {}, calls |-> <<>>,
         err |-> FALSE, call |-> "none"]

Installed(m) ==
  /\ mutex = m.mutex
  /\ blocked = m.blocked
  /\ anomalyBudget = m.anomalyBudget
  /\ maxBudget = m.maxBudget
  /\ regenerationRate = m.regenerationRate
  /\ transformationPhase = m.transformationPhase
  /\ orderThresholds = m.orderThresholds
  /\ activeEffects = m.activeEffects
  /\ availableTriggers = m.availableTriggers
  /\ worldState = m.worldState
  /\ changeHistory = m.changeHistory
  /\ markers = m.markers
  /\ stateFile = m.stateFile
  /\ isRunning = m.isRunning

\* A state file that does not parse; State is what it held up to the error.
CorruptFiles ==
  {[Status |-> "corrupt",
    State |-> Snapshot(82 * Units, 9 * InitialRegenerationRate, SavedIDs)]}

\* MetamorphosisManager.Init with the state file found on disk: LoadState,
\* and InitializeDefaultState when it returns an error.
MetamorphosisManagerInit(file, pool) ==
  LET m == LoadState([NewMetamorphosisManager EXCEPT !.stateFile = file], file)
  IN IF LoadStateError(file) THEN InitializeDefaultState(m, pool) ELSE m

Init ==
  /\ now = 0
  /\ lastOp = NoOp
  /\ waiting = NoCall
  /\ \E templates \in TriggerTemplateSets, file \in {MissingFile} \cup CorruptFiles :
       \E pool \in generateInitialTriggers(templates) :
          Installed(MetamorphosisManagerInit(file, pool))

InitLoaded ==
  /\ now = 0
  /\ lastOp = NoOp
  /\ waiting = NoCall
  /\ \E state \in Snapshots, templates \in TriggerTemplateSets :
       \E pool \in generateInitialTriggers(templates) :
          Installed(MetamorphosisManagerInit([Status |-> "ok", State |-> state], pool))

\* ------------------------------------------------------------------------
\* Entry points
\* ------------------------------------------------------------------------
Op(name, deltaTime, fired, m) ==
  [name |-> name, deltaTime |-> deltaTime, before |-> anomalyBudget,
   afterRegen |-> m.afterRegen, fired |-> fired, considered |-> m.considered,
   expired |-> m.expired, calls |-> m.calls, err |-> m.err, call |-> "none"]

\* The observation of a notification: call is the entry point that ran.
Notified(call, m) == [Op("Notify", 0, {}, m) EXCEPT !.call = call]

updateWorldState(m) ==
  [m EXCEPT !.worldState.ActiveEffects = "live",
            !.worldState.TransformationPhase = m.transformationPhase]

Picks(fired) ==
  {picks \in [fired -> EffectTemplateIDs \cup {"none"}] :
     \A id \in fired :
        LET suitable == suitableTemplates(getEffectOrderForTrigger(triggerTemplates(id)))
        IN IF suitable = {} THEN picks[id] = "none"
           ELSE picks[id] \in {t.ID : t \in suitable}}

liveOrder(m, effectOrder) ==
  SelectSeq(effectOrder, LAMBDA id : id \in DOMAIN m.activeEffects)
  \o SeqOf(DOMAIN m.activeEffects \ Range(effectOrder))

\* Update from the point where it holds the lock (m0) to its return.
UpdateLocked(m0, deltaTime) ==
  /\ \E entityOrder \in SeqsOf(Entities), effectOrder \in SeqsOf(DOMAIN activeEffects),
        coin \in [Entities -> BOOLEAN] :
       LET m1 == updateAnomalyBudget(m0, deltaTime)
           m2 == updateWorldState([m1 EXCEPT !.afterRegen = m1.anomalyBudget])
           fired == potentialTriggers(m2)
       IN \E sorted \in sortByPriority(fired), picks \in Picks(fired) :
            LET m3 == checkTriggers(m2, sorted, picks, entityOrder, coin)
                m4 == IF m3.blocked # "none" THEN m3
                      ELSE updateActiveEffects(m3, liveOrder(m3, effectOrder), entityOrder)
                m5 == IF m4.blocked # "none" THEN m4
                      ELSE applyEffectsToEntities(m4, entityOrder,
                                                  liveOrder(m4, effectOrder), coin)
            IN /\ Commit(Unlock(m5))
               /\ lastOp' = Op("Update", deltaTime, fired, m5)
  /\ UNCHANGED now

Update(deltaTime) ==
  /\ mutex = "unlocked"
  /\ UpdateLocked(Lock(mm), deltaTime)

\* Game.Update, the frame callback of the running game.
Tick == isRunning /\ (\E deltaTime \in DeltaTimes : Update(deltaTime)) /\ UNCHANGED waiting

\* Variant: a full buffer drops the action that arrives.
appendPlayerActionDropsNew(recent, action) ==
  LET actions == Append(recent, action)
  IN IF Len(actions) > MaxRecentActions THEN SubSeq(actions, 1, MaxRecentActions)
     ELSE actions

\* The buffer of AddPlayerAction after the action is appended.
appendPlayerAction(recent, action) ==
  LET actions == Append(recent, action)
  IN IF Len(actions) > MaxRecentActions THEN Tail(actions) ELSE actions

AddPlayerAction(type) ==
  /\ mutex = "unlocked"
  /\ Len(worldState.RecentPlayerActions) < MaxActions
  /\ LET m1 == [Lock(mm) EXCEPT !.worldState.RecentPlayerActions =
                   appendPlayerAction(@, [Type |-> type, Timestamp |-> now])]
     IN /\ Commit(Unlock(m1))
        /\ lastOp' = Notified("AddPlayerAction", m1)
  /\ UNCHANGED now

AddDiscoveredSymbol(symbolID) ==
  /\ mutex = "unlocked"
  /\ LET m0 == Lock(mm)
         m1 == IF containsString(worldState.DiscoveredSymbols, symbolID) THEN m0
               ELSE checkTransformationPhaseProgress(
                      [m0 EXCEPT !.worldState.DiscoveredSymbols = Append(@, symbolID)])
     IN /\ Commit(Unlock(m1))
        /\ lastOp' = Notified("AddDiscoveredSymbol", m1)
  /\ UNCHANGED now

AddCompletedRitual(ritualID) ==
  /\ mutex = "unlocked"
  /\ LET m0 == Lock(mm)
         m1 == IF containsString(worldState.CompletedRituals, ritualID) THEN m0
               ELSE checkTransformationPhaseProgress(
                      [m0 EXCEPT !.worldState.CompletedRituals = Append(@, ritualID)])
     IN /\ Commit(Unlock(m1))
        /\ lastOp' = Notified("AddCompletedRitual", m1)
  /\ UNCHANGED now

SetLocalAnomalyLevel(areaID, level) ==
  /\ mutex = "unlocked"
  /\ LET old == worldState.LocalAnomalyLevels
         m1 == updateGlobalAnomalyLevel(
                 [Lock(mm) EXCEPT !.worldState.LocalAnomalyLevels =
                     [a \in DOMAIN old \cup {areaID} |->
                         IF a = areaID THEN level ELSE old[a]]])
     IN /\ Commit(Unlock(m1))
        /\ lastOp' = Notified("SetLocalAnomalyLevel", m1)
  /\ UNCHANGED now

\* Variant: the weather is written without taking the lock.
SetWeatherNoLock(weather) ==
  /\ LET m1 == [mm EXCEPT !.worldState.Weather = weather]
     IN /\ Commit(m1)
        /\ lastOp' = Notified("SetWeather", m1)
  /\ UNCHANGED now

SetWeather(weather) ==
  /\ mutex = "unlocked"
  /\ LET m1 == [Lock(mm) EXCEPT !.worldState.Weather = weather]
     IN /\ Commit(Unlock(m1))
        /\ lastOp' = Notified("SetWeather", m1)
  /\ UNCHANGED now

\* Variant: the maximum is raised and the available budget left as it was.
RecordPlayerDeathNoRefill ==
  /\ mutex = "unlocked"
  /\ worldState.Cycles < MaxCycles
  /\ LET m1 == [Lock(mm) EXCEPT !.worldState.LastPlayerDeath = now,
                                !.worldState.Cycles = @ + 1,
                                !.maxBudget = @ + RebirthBonus]
         m2 == checkTransformationPhaseProgress(m1)
     IN /\ Commit(Unlock(m2))
        /\ lastOp' = Notified("RecordPlayerDeath", m2)
  /\ UNCHANGED now

RecordPlayerDeath ==
  /\ mutex = "unlocked"
  /\ worldState.Cycles < MaxCycles
  /\ LET m1 == [Lock(mm) EXCEPT !.worldState.LastPlayerDeath = now,
                                !.worldState.Cycles = @ + 1,
                                !.maxBudget = @ + RebirthBonus,
                                !.anomalyBudget = mm.maxBudget + RebirthBonus]
         m2 == checkTransformationPhaseProgress(m1)
     IN /\ Commit(Unlock(m2))
        /\ lastOp' = Notified("RecordPlayerDeath", m2)
  /\ UNCHANGED now

\* The wall clock read by time.Now advances independently of the ticks; it is
\* read only while the game runs.
AdvanceClock ==
  /\ isRunning
  /\ now < MaxNow
  /\ now' = now + ClockStep
  /\ UNCHANGED <<mutex, blocked, anomalyBudget, maxBudget, regenerationRate,
                 transformationPhase, orderThresholds, activeEffects,
                 availableTriggers, worldState, changeHistory, markers,
                 stateFile, isRunning, waiting, lastOp>>

\* Game.Stop: clears isRunning; saveGameState calls SaveState, which takes
\* the read lock.
Stop ==
  /\ isRunning
  /\ mutex = "unlocked"
  /\ LET m1 == SaveState([mm EXCEPT !.isRunning = FALSE])
     IN /\ Commit(m1)
        /\ lastOp' = Op("SaveState", 0, {}, m1)
  /\ UNCHANGED <<now, waiting>>

Notify ==
  /\ isRunning
  /\ \/ \E type \in ActionTypes : AddPlayerAction(type)
     \/ \E symbolID \in SymbolIDs : AddDiscoveredSymbol(symbolID)
     \/ \E ritualID \in RitualIDs : AddCompletedRitual(ritualID)
     \/ \E areaID \in AreaIDs, level \in Levels : SetLocalAnomalyLevel(areaID, level)
     \/ \E weather \in Weathers : SetWeather(weather)
     \/ RecordPlayerDeath
  /\ UNCHANGED waiting

Next == Tick \/ Notify \/ AdvanceClock \/ Stop

Spec == Init /\ [][Next]_vars

SpecLoaded == InitLoaded /\ [][Next]_vars

SpecAll == (Init \/ InitLoaded) /\ [][Next]_vars

\* Trigger template files with two triggers of one priority, and the order
\* in which CreateDefaultTriggerTemplates declares the triggers.
TiedTemplates == {"dawn_trigger", "symbol_discovery_trigger"}
Declared == <<"dawn_trigger", "symbol_discovery_trigger", "player_death_trigger",
              "anomaly_high_trigger">>

InitTies ==
  /\ now = 0
  /\ lastOp = NoOp
  /\ waiting = NoCall
  /\ \E pool \in generateInitialTriggers(TiedTemplates) :
        Installed(MetamorphosisManagerInit(MissingFile, pool))

SpecTies == InitTies /\ [][Next]_vars

\* The game loop calls Update on every frame while the game runs.
SpecFair == InitTies /\ [][Next]_vars /\ WF_vars(Tick)

\* ------------------------------------------------------------------------
\* The game thread and a second thread. Update is taken in two steps, the
\* return of mm.mutex.Lock() and the rest up to the deferred Unlock; a
\* notification the second thread calls in between waits in its own
\* mm.mutex.Lock() until the lock is free.
\* ------------------------------------------------------------------------
Notifications ==
  {[name |-> "AddPlayerAction", arg |-> type] : type \in ActionTypes}
  \cup {[name |-> "AddDiscoveredSymbol", arg |-> symbolID] : symbolID \in SymbolIDs}
  \cup {[name |-> "AddCompletedRitual", arg |-> ritualID] : ritualID \in RitualIDs}
  \cup {[name |-> "SetLocalAnomalyLevel", arg |-> <<areaID, level>>] :
           areaID \in AreaIDs, level \in Levels}
  \cup {[name |-> "SetWeather", arg |-> weather] : weather \in Weathers}
  \cup {[name |-> "RecordPlayerDeath", arg |-> "none"]}

Dispatch(call) ==
  \/ call.name = "AddPlayerAction" /\ AddPlayerAction(call.arg)
  \/ call.name = "AddDiscoveredSymbol" /\ AddDiscoveredSymbol(call.arg)
  \/ call.name = "AddCompletedRitual" /\ AddCompletedRitual(call.arg)
  \/ call.name = "SetLocalAnomalyLevel" /\ SetLocalAnomalyLevel(call.arg[1], call.arg[2])
  \/ call.name = "SetWeather" /\ SetWeather(call.arg)
  \/ call.name = "RecordPlayerDeath" /\ RecordPlayerDeath

UpdateLock ==
  /\ isRunning
  /\ mutex = "unlocked"
  /\ \E deltaTime \in DeltaTimes :
       /\ Commit(Lock(mm))
       /\ lastOp' = Op("Lock", deltaTime, {}, mm)
  /\ UNCHANGED <<now, waiting>>

UpdateReturn ==
  /\ lastOp.name = "Lock"
  /\ UpdateLocked(mm, lastOp.deltaTime)
  /\ UNCHANGED waiting

\* The second thread calls a notification while Update holds the lock.
Issue ==
  /\ isRunning
  /\ lastOp.name = "Lock" /\ mutex = "locked"
  /\ waiting = NoCall
  /\ \E call \in Notifications : waiting' = call
  /\ UNCHANGED <<mutex, blocked, anomalyBudget, maxBudget, regenerationRate,
                 transformationPhase, orderThresholds, activeEffects,
                 availableTriggers, worldState, changeHistory, markers,
                 stateFile, isRunning, now, lastOp>>

\* The waiting call gets the lock and runs.
Resume ==
  /\ isRunning
  /\ waiting # NoCall
  /\ Dispatch(waiting)
  /\ waiting' = NoCall

NextThreads == UpdateLock \/ UpdateReturn \/ Issue \/ Resume \/ Notify \/ AdvanceClock \/ Stop

\* The game started without a state file.
InitThreads == Init /\ stateFile = MissingFile

SpecThreads == InitThreads /\ [][NextThreads]_vars

\* ------------------------------------------------------------------------
\* The helper functions of the manager, called on their own: the arguments
\* are drawn from the sets below and lastOp holds the last call, with its
\* arguments and what it computed.
\* ------------------------------------------------------------------------
MaxDistance == 16
MaxIntensity == 10

Falloffs == {"none", "linear", "quadratic", "exponential"}
FalloffRanges == {<<5, 15>>, <<5, 10>>}
Radii == {10, 20}
Areas ==
  {Sphere(center, radius, kind, range[1], range[2]) :
     center \in 0..MaxDistance, radius \in Radii, kind \in Falloffs,
     range \in FalloffRanges}

\* Durations in minutes: permanent, and finite ones below, at and above 5 hours.
Durations == {0, 10, 299, 300, 360}
Priorities == {0, 400, 599, 600, 749, 750, 849, 850, 949, 950, 1000}

engine == <<mutex, blocked, anomalyBudget, maxBudget, regenerationRate,
            transformationPhase, orderThresholds, activeEffects,
            availableTriggers, worldState, changeHistory, markers, stateFile,
            isRunning, waiting, now>>

CallIsEntityAffectedByEffect ==
  \E entity \in Entities, area \in Areas :
     LET effect == [NoEffect EXCEPT !.AffectedArea = area]
         distance == Distance(Position[entity], area.Center)
     IN /\ lastOp' = [name |-> "isEntityAffectedByEffect", entity |-> entity,
                      area |-> area, distance |-> distance,
                      falloff |-> falloff(area, distance),
                      result |-> isEntityAffectedByEffect(entity, effect)]
        /\ UNCHANGED engine

Cylinders ==
  {Cylinder(center, centerY, 10, 4, kind, 5, 10) :
     center \in 0..MaxDistance, centerY \in {0, 3}, kind \in Falloffs}

CallIsEntityAffectedByCylinder ==
  \E entity \in Entities, area \in Cylinders :
     LET effect == [NoEffect EXCEPT !.AffectedArea = area]
     IN /\ lastOp' = [name |-> "isEntityAffectedByEffect", entity |-> entity,
                      area |-> area,
                      distance |-> Distance(Position[entity], area.Center),
                      result |-> isEntityAffectedByEffect(entity, effect)]
        /\ UNCHANGED engine

CallGetEffectCost ==
  \E order \in Orders, intensity \in 0..MaxIntensity, duration \in Durations :
     LET effect == [NoEffect EXCEPT !.Order = order, !.Intensity = intensity,
                                    !.Duration = duration]
     IN /\ lastOp' = [name |-> "getEffectCost", effect |-> effect,
                      result |-> getEffectCost(effect)]
        /\ UNCHANGED engine

CallSelectEffectForTrigger ==
  \E minPhase \in Orders, priority \in Priorities :
     LET trigger == [triggerTemplates("dawn_trigger") EXCEPT
                       !.MinPhase = minPhase, !.Priority = priority]
         order == getEffectOrderForTrigger(trigger)
         suitable == {t.ID : t \in suitableTemplates(order)}
     IN \E pick \in (IF suitable = {} THEN {"none"} ELSE suitable) :
          /\ lastOp' = [name |-> "selectEffectForTrigger", trigger |-> trigger,
                        order |-> order,
                        result |-> selectEffectForTrigger(trigger, pick)]
          /\ UNCHANGED engine

TagFilters == {<<>>, <<"plant">>, <<"plant", "tree">>, <<"visible">>, <<"rock">>}
MatchAreas ==
  {NoArea} \cup {Sphere(center, 10, kind, 5, 10) :
                   center \in {0, 9, MaxDistance}, kind \in {"none", "linear"}}

CallGetEntitiesForEffect ==
  \E tags \in TagFilters, area \in MatchAreas, entityOrder \in SeqsOf(Entities) :
     LET effect == [NoEffect EXCEPT !.AffectedTags = tags, !.AffectedArea = area]
     IN /\ lastOp' = [name |-> "getEntitiesForEffect", effect |-> effect,
                      result |-> getEntitiesForEffect(effect, entityOrder)]
        /\ UNCHANGED engine

\* Logs of distinct entries: empty, short, one below the limit and full.
FilledLog(n) == [i \in 1..n |-> HistoryEntry(<<"slow_rot", i>>, "applied", "o1")]
Logs == {FilledLog(n) : n \in {0, 1, MaxHistory - 1, MaxHistory}}

CallRecordHistoryEntry ==
  \E log \in Logs, action \in {"created", "expired"} :
     LET m == recordHistoryEntry([mm EXCEPT !.changeHistory = log],
                                 <<"slow_rot", 0>>, action, "")
     IN /\ lastOp' = [name |-> "recordHistoryEntry", before |-> log,
                      entry |-> HistoryEntry(<<"slow_rot", 0>>, action, ""),
                      after |-> m.changeHistory]
        /\ UNCHANGED engine

\* Buffers of distinct actions: empty, short, one below the limit and full.
FilledBuffer(n) == [i \in 1..n |-> [Type |-> "discover_symbol", Timestamp |-> i - n - 1]]
Buffers == {FilledBuffer(n) : n \in {0, 1, MaxRecentActions - 1, MaxRecentActions}}

CallAddPlayerAction ==
  \E recent \in Buffers, type \in ActionTypes :
     LET action == [Type |-> type, Timestamp |-> now]
     IN /\ lastOp' = [name |-> "AddPlayerAction", before |-> recent,
                      action |-> action,
                      after |-> appendPlayerAction(recent, action)]
        /\ UNCHANGED engine

\* The triggers of CreateDefaultTriggerTemplates, and template directories
\* that hold none of them, fewer than the limit, as many, or more.
DefaultTriggers ==
  <<"midnight_trigger", "dawn_trigger", "anomaly_zone_trigger", "ritual_site_trigger",
    "symbol_discovery_trigger", "ritual_completion_trigger", "player_death_trigger",
    "blood_spill_trigger", "sanity_low_trigger", "anomaly_high_trigger">>
TemplateDirectories ==
  {{DefaultTriggers[i] : i \in 1..n} :
     n \in {0, MaxInitialTriggers - 1, MaxInitialTriggers, MaxInitialTriggers + 1}}

CallGenerateInitialTriggers ==
  \E templates \in TemplateDirectories :
     \E pool \in generateInitialTriggers(templates) :
        /\ lastOp' = [name |-> "generateInitialTriggers", templates |-> templates,
                      pool |-> pool]
        /\ UNCHANGED engine

InitCalls ==
  /\ now = 0
  /\ lastOp = NoOp
  /\ waiting = NoCall
  /\ Installed(NewMetamorphosisManager)

NextCalls ==
  \/ CallIsEntityAffectedByEffect \/ CallGetEffectCost \/ CallSelectEffectForTrigger
  \/ CallGetEntitiesForEffect \/ CallIsEntityAffectedByCylinder
  \/ CallRecordHistoryEntry \/ CallAddPlayerAction \/ CallGenerateInitialTriggers

SpecCalls == InitCalls /\ [][NextCalls]_vars

\* ------------------------------------------------------------------------
\* Properties
\* ------------------------------------------------------------------------
AfterTick == lastOp.name = "Update"
AfterNotify == lastOp.name = "Notify"
TickStep == lastOp'.name = "Update" /\ now' = now

Admitted(op) == {i \in DOMAIN op.considered : op.considered[i].Outcome = "admit"}
Removed == DOMAIN activeEffects \ DOMAIN activeEffects'
Added == DOMAIN activeEffects' \ DOMAIN activeEffects
HalfCosts == [id \in Removed |-> getEffectCost(activeEffects[id]) \div 2]
FullCosts == [id \in Added |-> getEffectCost(activeEffects'[id])]
Created(h) == {i \in DOMAIN h : h[i].Action = "created"}

\* C1: 0 <= available <= max in every reachable state, and available changes
\* only by a tick's regeneration, admission debit and removal credit, and by
\* the refill of recordPlayerDeath.
BudgetStep ==
  anomalyBudget' # anomalyBudget =>
    \/ /\ TickStep
       /\ maxBudget' = maxBudget
       /\ lastOp'.afterRegen =
            Min(maxBudget, anomalyBudget + (regenerationRate * lastOp'.deltaTime) \div 60)
       /\ anomalyBudget' =
            Min(maxBudget, lastOp'.afterRegen - SumOver(FullCosts, Added)
                           + SumOver(HalfCosts, Removed))
    \/ /\ lastOp'.name = "Notify"
       /\ worldState'.Cycles = worldState.Cycles + 1
       /\ maxBudget' = maxBudget + RebirthBonus
       /\ anomalyBudget' = maxBudget'

BudgetConservation ==
  /\ [](0 <= anomalyBudget /\ anomalyBudget <= maxBudget)
  /\ [][BudgetStep]_vars

BudgetConservationWitness ==
  /\ AfterTick
  /\ lastOp.expired # {}
  /\ lastOp.afterRegen > lastOp.before
  /\ anomalyBudget > lastOp.afterRegen
  /\ anomalyBudget = maxBudget

\* C2: every tick runs to completion and releases the engine lock.
TickReleasesLock == AfterTick => mutex = "unlocked" /\ blocked = "none"

\* C3: every notification entry point returns and leaves the engine lock free.
NotifyReleasesLock == AfterNotify => mutex = "unlocked" /\ blocked = "none"

\* C4: a tick adds at most one instance to the live set and removes at most
\* one trigger from the candidate pool.
AtMostOnePerTickStep ==
  TickStep =>
    /\ Cardinality(Added) <= 1
    /\ Cardinality(availableTriggers \ availableTriggers') <= 1

AtMostOnePerTick == [][AtMostOnePerTickStep]_vars

CouldAdmit(id) ==
  LET order == getEffectOrderForTrigger(triggerTemplates(id))
  IN /\ isOrderAllowed(mm, order)
     /\ \E t \in suitableTemplates(order) : getEffectCost(t) <= lastOp.afterRegen

AtMostOnePerTickWitness ==
  /\ AfterTick
  /\ Cardinality(lastOp.fired) >= 2
  /\ \A id \in lastOp.fired : CouldAdmit(id)
  /\ Admitted(lastOp) # {}

\* C5: the fired triggers are considered in descending priority, and once one
\* is admitted the fired triggers after it are not considered, produce no
\* effect and stay in the pool.
Priority(id) == triggerTemplates(id).Priority

PriorityOrderStep ==
  TickStep =>
    LET c == lastOp'.considered
        seen == {c[i].Trigger : i \in DOMAIN c}
    IN /\ \A i, j \in DOMAIN c : i < j => Priority(c[i].Trigger) >= Priority(c[j].Trigger)
       /\ \A i \in Admitted(lastOp') : i = Len(c)
       /\ seen \subseteq lastOp'.fired
       /\ \A id \in lastOp'.fired \ seen :
             /\ Admitted(lastOp') # {}
             /\ \A i \in DOMAIN c : Priority(c[i].Trigger) >= Priority(id)
             /\ id \in availableTriggers'
       /\ \A e \in Added : \E i \in Admitted(lastOp') : c[i].Template = e[1]

PriorityOrder == [][PriorityOrderStep]_vars

PriorityOrderWitness ==
  /\ AfterTick
  /\ \E i \in Admitted(lastOp) :
       \E id \in lastOp.fired :
          /\ Priority(id) < Priority(lastOp.considered[i].Trigger)
          /\ CouldAdmit(id)
          /\ id \in availableTriggers
          /\ \A j \in DOMAIN lastOp.considered : lastOp.considered[j].Trigger # id

\* C6: a trigger leaves the candidate pool in a tick if and only if the effect
\* selected for it is admitted in that tick, and no other operation removes a
\* trigger.
ConsumedIffAdmittedStep ==
  \A id \in availableTriggers :
     id \notin availableTriggers' <=>
       /\ lastOp'.name = "Update"
       /\ \E i \in Admitted(lastOp') : lastOp'.considered[i].Trigger = id

ConsumedIffAdmitted == [][lastOp' # lastOp => ConsumedIffAdmittedStep]_vars

\* C7: a fired, admissible trigger whose selected effect costs more than the
\* available budget is not admitted: no debit, no new live instance, no
\* history entry, and the trigger stays in the pool.
UnaffordableRetainedStep ==
  TickStep =>
    \A i \in DOMAIN lastOp'.considered :
       LET c == lastOp'.considered[i]
       IN (c.Outcome \in {"admit", "unaffordable"} /\ c.Cost > lastOp'.afterRegen) =>
            /\ c.Outcome = "unaffordable"
            /\ c.Trigger \in availableTriggers'
            /\ Admitted(lastOp') = {} =>
                 /\ Added = {}
                 /\ anomalyBudget' >= lastOp'.afterRegen
                 /\ Created(changeHistory') = Created(changeHistory)

UnaffordableRetained == [][UnaffordableRetainedStep]_vars

UnaffordableRetainedWitness ==
  /\ AfterTick
  /\ mutex = "unlocked"
  /\ \E i \in DOMAIN lastOp.considered :
       /\ lastOp.considered[i].Outcome = "unaffordable"
       /\ lastOp.considered[i].Cost > anomalyBudget
       /\ lastOp.considered[i].Trigger \in availableTriggers

\* C8: admitting an instance lowers available by exactly its cost
\* order * 10 * intensity * (1.5 if permanent, else 1 + durationHours / 10);
\* an order-2, intensity-0.6, permanent instance costs 18.
AdmissionDebitsCost ==
  /\ getEffectCost(effectTemplates("twisted_vegetation")) = 18 * Units
  /\ AfterTick =>
       \A i \in Admitted(lastOp) :
          LET c == lastOp.considered[i]
              e == effectTemplates(c.Template)
          IN /\ c.Cost * 600 = IF e.Duration = 0
                              THEN e.Order * e.Intensity * Units * 900
                              ELSE e.Order * e.Intensity * Units * (600 + e.Duration)
             /\ lastOp.expired = {} => anomalyBudget = lastOp.afterRegen - c.Cost

\* C9: removing a live instance credits half of its cost, clamped to max
\* (82 -> 91 for cost 18 when nothing regenerates in between).
RemovalCreditsHalfStep ==
  (TickStep /\ Added = {}) =>
     anomalyBudget' = Min(maxBudget, lastOp'.afterRegen + SumOver(HalfCosts, Removed))

RemovalCreditsHalf == [][RemovalCreditsHalfStep]_vars

RemovalCreditsHalfWitness ==
  /\ AfterTick
  /\ lastOp.deltaTime = 0
  /\ lastOp.before = 82 * Units
  /\ lastOp.expired = {<<"gravity_anomaly", 1>>}
  /\ getEffectCost(effectTemplates("gravity_anomaly")) = 18 * Units
  /\ anomalyBudget = 91 * Units

\* C10: regeneration sets available to
\* min(max, available + regenRatePerMinute * deltaSeconds / 60); it never
\* lowers available and never raises it above max.
RegenerationClamps ==
  AfterTick =>
    /\ lastOp.afterRegen * 60 =
         Min(maxBudget * 60, lastOp.before * 60 + regenerationRate * lastOp.deltaTime)
    /\ lastOp.afterRegen >= lastOp.before
    /\ lastOp.afterRegen <= maxBudget

RegenerationClampsWitness ==
  /\ AfterTick
  /\ lastOp.deltaTime = 120
  /\ regenerationRate = InitialRegenerationRate
  /\ lastOp.before = 100 * Units
  /\ maxBudget = 100 * Units
  /\ lastOp.afterRegen = 100 * Units
  /\ Admitted(lastOp) = {}
  /\ anomalyBudget = 100 * Units

\* C11: the phase never decreases and stays within 1..5, and an order
\* threshold that is zero stays zero, over any ticks and notifications.
PhaseMonotonicStep ==
  /\ transformationPhase' >= transformationPhase
  /\ \A o \in Orders : orderThresholds[o] = 0 => orderThresholds'[o] = 0

PhaseMonotonic ==
  /\ [](transformationPhase \in 1..5)
  /\ [][PhaseMonotonicStep]_vars

PhaseMonotonicWitness ==
  /\ AfterNotify
  /\ getTransformationProgress(mm) >= 250
  /\ blocked = "SetTransformationPhase"
  /\ transformationPhase = 1
  /\ orderThresholds[1] = 0

\* C12: the scheduler admits an effect of order o only when progress is at
\* least the threshold of o; a fired trigger whose order is not admissible is
\* skipped: it stays in the pool and changes neither budget nor live set.
GateStep ==
  TickStep =>
    \A i \in DOMAIN lastOp'.considered :
       LET c == lastOp'.considered[i]
           order == getEffectOrderForTrigger(triggerTemplates(c.Trigger))
           allowed == getTransformationProgress(mm) >= orderThresholds[order]
       IN /\ c.Outcome = "admit" =>
               /\ allowed
               /\ effectTemplates(c.Template).Order = order
          /\ c.Outcome = "order_not_allowed" <=> ~allowed
          /\ c.Outcome = "order_not_allowed" =>
               /\ c.Trigger \in availableTriggers'
               /\ Admitted(lastOp') = {} =>
                    /\ Added = {}
                    /\ availableTriggers' = availableTriggers
                    /\ anomalyBudget' >= lastOp'.afterRegen

Gate == [][GateStep]_vars

GateWitness ==
  /\ AfterTick
  /\ mutex = "unlocked"
  /\ \E i \in DOMAIN lastOp.considered :
       /\ lastOp.considered[i].Outcome = "order_not_allowed"
       /\ lastOp.considered[i].Trigger = "anomaly_high_trigger"
       /\ "anomaly_high_trigger" \in availableTriggers
       /\ getTransformationProgress(mm) < orderThresholds[2]
       /\ anomalyBudget = lastOp.afterRegen

\* C13: a live instance with duration 0 is never removed from the live set by
\* a tick, whatever time has elapsed.
PermanentStaysStep ==
  \A id \in DOMAIN activeEffects :
     activeEffects[id].Duration = 0 => id \in DOMAIN activeEffects'

PermanentStays == [][PermanentStaysStep]_vars

PermanentStaysWitness ==
  /\ AfterTick
  /\ now >= ClockStep
  /\ lastOp.expired = {}
  /\ \E id \in DOMAIN activeEffects :
        /\ activeEffects[id].Duration = 0
        /\ now - activeEffects[id].AppliedTime > 0
  /\ \E i \in DOMAIN changeHistory : changeHistory[i].Action = "removed"

Completed == blocked' = "none"
Due == {id \in DOMAIN activeEffects :
          /\ activeEffects[id].Duration > 0
          /\ now - activeEffects[id].AppliedTime >= activeEffects[id].Duration}
Logged(h, effectID, action, entityID) ==
  Cardinality({i \in DOMAIN h : h[i] = HistoryEntry(effectID, action, entityID)})
NewEntries == {changeHistory'[i] : i \in (Len(changeHistory) + 1)..Len(changeHistory')}
Calls(op, handler, effectID, entityID) ==
  Cardinality({i \in DOMAIN op.calls : op.calls[i] = Call(handler, effectID, entityID)})
Marked(m, entity, effectID) ==
  Cardinality({i \in DOMAIN m[entity] : m[entity][i] = effectID})

\* C14: after the registry update of a tick no live instance is finite and
\* past its duration; each such instance was expired in the tick: deleted from
\* the live map, its marker removed from every object carrying it with the
\* removal handler fired there, half its cost credited, the removal logged.
ExpiryStep ==
  (TickStep /\ Completed) =>
     /\ \A id \in DOMAIN activeEffects' :
           ~(/\ activeEffects'[id].Duration > 0
             /\ now' - activeEffects'[id].AppliedTime >= activeEffects'[id].Duration)
     /\ Removed = Due
     /\ lastOp'.expired = Due
     /\ \A id \in Due :
           /\ \A e \in Entities :
                 /\ Marked(markers', e, id) = 0
                 /\ (Marked(markers, e, id) > 0 /\ OnRemove(activeEffects[id])) =>
                       Calls(lastOp', "OnRemove", id, e) = 1
           /\ Logged(changeHistory', id, "removed", "") =
                 Logged(changeHistory, id, "removed", "") + 1
     /\ Added = {} =>
           anomalyBudget' = Min(maxBudget, lastOp'.afterRegen + SumOver(HalfCosts, Removed))

Expiry == [][ExpiryStep]_vars

ExpiryWitness ==
  /\ AfterTick
  /\ blocked = "none"
  /\ lastOp.expired = {<<"gravity_anomaly", 1>>}
  /\ DOMAIN activeEffects = {<<"twisted_vegetation", 1>>}
  /\ Logged(changeHistory, <<"gravity_anomaly", 1>>, "removed", "") = 1
  /\ anomalyBudget > lastOp.afterRegen

\* C15: an instance created for admission never gets the id of an instance
\* that is live at that moment, so admission never overwrites an entry of the
\* live map.
UniqueIDStep ==
  TickStep =>
    \A i \in DOMAIN lastOp'.considered :
       LET c == lastOp'.considered[i]
       IN c.Outcome \in {"admit", "unaffordable"} =>
            <<c.Template, now>> \notin DOMAIN activeEffects

ReconcileIdempotentStep ==
  (/\ TickStep
   /\ Completed
   /\ lastOp.name = "Update"
   /\ Added = {}
   /\ Removed = {}) =>
     /\ markers' = markers
     /\ lastOp'.calls = <<>>

ReconcileIdempotent == [][ReconcileIdempotentStep]_vars

\* C17: after a reconcile pass no object carries a marker of an instance that
\* is not live, and every marker removal of the tick is accompanied by a call
\* of the instance's removal handler on that object.
NoStaleMarkersStep ==
  (TickStep /\ Completed) =>
     /\ \A e \in Entities : \A i \in DOMAIN markers'[e] :
           markers'[e][i] \in DOMAIN activeEffects'
     /\ \A h \in NewEntries :
           (/\ h.Action = "removed"
            /\ h.EntityID # ""
            /\ OnRemove(effectTemplates(h.EffectID[1]))) =>
               Calls(lastOp', "OnRemove", h.EffectID, h.EntityID) >= 1

ApplyOnceStep ==
  TickStep =>
    \A e \in Entities : \A id \in DOMAIN activeEffects' :
       /\ Marked(markers', e, id) <= 1
       /\ Calls(lastOp', "OnApply", id, e) <= 1
       /\ Calls(lastOp', "OnApply", id, e) = 1 => Marked(markers, e, id) = 0
       /\ (Marked(markers, e, id) = 1 /\ Completed) => Marked(markers', e, id) = 1

SaveLoadRoundTripStep ==
  (isRunning /\ ~isRunning') =>
     /\ ~lastOp'.err
     /\ stateFile'.Status = "ok"
     /\ LET r == LoadState(NewMetamorphosisManager, stateFile')
        IN /\ r.anomalyBudget = anomalyBudget
           /\ r.maxBudget = maxBudget
           /\ r.regenerationRate = regenerationRate
           /\ r.transformationPhase = transformationPhase
           /\ r.orderThresholds = orderThresholds
           /\ DOMAIN r.activeEffects = DOMAIN activeEffects
           /\ \A id \in DOMAIN r.activeEffects \cap DOMAIN activeEffects :
                 r.activeEffects[id] =
                   [effectTemplates(activeEffects[id].Template) EXCEPT !.ID = id]

SaveLoadRoundTrip == [][SaveLoadRoundTripStep]_vars

\* C20: when the state file is missing or does not parse, LoadState returns an
\* error and changes no engine field, and Init succeeds with the default
\* state: available = max = 100, regeneration 0.5, phase 1, no live instance.
LoadFailureDefaults ==
  (lastOp.name = "Init" /\ stateFile.Status # "ok") =>
     /\ LoadStateError(stateFile)
     /\ LoadState(NewMetamorphosisManager, stateFile) = NewMetamorphosisManager
     /\ ~lastOp.err
     /\ mutex = "unlocked"
     /\ anomalyBudget = 100 * Units
     /\ maxBudget = 100 * Units
     /\ regenerationRate * 2 = Units
     /\ transformationPhase = 1
     /\ DOMAIN activeEffects = {}

LoadFailureDefaultsWitness ==
  /\ lastOp.name = "Init"
  /\ stateFile.Status = "corrupt"
  /\ DOMAIN stateFile.State.ActiveEffects # {}
  /\ stateFile.State.AnomalyBudget # 100 * Units
  /\ anomalyBudget = 100 * Units
  /\ DOMAIN activeEffects = {}
  /\ availableTriggers # {}

\* ------------------------------------------------------------------------
\* Sphere regions and falloff
\* ------------------------------------------------------------------------
AreaCall(op) == op.name = "isEntityAffectedByEffect" /\ op.area.Type = "sphere"

\* The call computed a falloff weight: the object is within the radius.
Weighed(op) == AreaCall(op) /\ ~(op.distance > op.area.Radius)

SameSphere(a, b) ==
  /\ a.Radius = b.Radius /\ a.Falloff = b.Falloff
  /\ a.FalloffMin = b.FalloffMin /\ a.FalloffMax = b.FalloffMax

\* C22: for a sphere with inner distance 5 and outer distance 15 and linear,
\* quadratic or exponential falloff, of two objects at distances d1 < d2, both
\* in [inner, outer], the nearer one has at least the weight of the farther.
FalloffMonotoneStep ==
  ( /\ Weighed(lastOp) /\ Weighed(lastOp')
    /\ SameSphere(lastOp.area, lastOp'.area)
    /\ lastOp.area.FalloffMin = 5 /\ lastOp.area.FalloffMax = 15
    /\ lastOp.area.Falloff \in {"linear", "quadratic", "exponential"}
    /\ lastOp.distance >= 5 /\ lastOp'.distance <= 15
    /\ lastOp.distance < lastOp'.distance )
  => lastOp.falloff >= lastOp'.falloff

FalloffMonotone == [][FalloffMonotoneStep]_vars

FalloffMonotoneWitness ==
  /\ Weighed(lastOp)
  /\ lastOp.area.FalloffMin = 5 /\ lastOp.area.FalloffMax = 15
  /\ lastOp.area.Falloff = "exponential"
  /\ lastOp.distance = 15
  /\ lastOp.falloff > 0 /\ lastOp.falloff < MinWeight

\* C23: an object is outside a sphere region when its distance exceeds the
\* radius, and also when it is within the radius with a falloff weight below
\* 0.05; at distance 10 from a sphere with inner distance 5, outer distance 10
\* and linear falloff the weight is 0 and the object is outside.
SphereExclusion ==
  AreaCall(lastOp) =>
    /\ lastOp.distance > lastOp.area.Radius => ~lastOp.result
    /\ Weighed(lastOp) /\ lastOp.falloff < MinWeight => ~lastOp.result
    /\ ( /\ Weighed(lastOp) /\ lastOp.distance = 10
         /\ lastOp.area.FalloffMin = 5 /\ lastOp.area.FalloffMax = 10
         /\ lastOp.area.Falloff = "linear" )
       => lastOp.falloff = 0 /\ ~lastOp.result

SphereExclusionWitness ==
  /\ Weighed(lastOp) /\ lastOp.distance = 10
  /\ lastOp.area.FalloffMin = 5 /\ lastOp.area.FalloffMax = 10
  /\ lastOp.area.Falloff = "linear"
  /\ lastOp.falloff = 0 /\ ~lastOp.result

\* ------------------------------------------------------------------------
\* Cost of an effect
\* ------------------------------------------------------------------------
CostCall(op) == op.name = "getEffectCost"

\* C24: for a fixed order >= 1 and a fixed duration the cost grows strictly
\* with the intensity; for a fixed order and intensity > 0 a permanent effect
\* costs strictly more than every finite one that lasts less than 5 hours.
CostMonotoneStep ==
  CostCall(lastOp) /\ CostCall(lastOp') /\ lastOp.effect.Order = lastOp'.effect.Order
  => /\ ( /\ lastOp.effect.Order >= 1
          /\ lastOp.effect.Duration = lastOp'.effect.Duration
          /\ lastOp.effect.Intensity < lastOp'.effect.Intensity )
        => lastOp.result < lastOp'.result
     /\ ( /\ lastOp.effect.Intensity = lastOp'.effect.Intensity
          /\ lastOp.effect.Intensity > 0
          /\ lastOp.effect.Duration = 0
          /\ lastOp'.effect.Duration > 0 /\ lastOp'.effect.Duration < 5 * 60 )
        => lastOp.result > lastOp'.result

CostMonotone == [][CostMonotoneStep]_vars

CostMonotoneWitness ==
  /\ CostCall(lastOp)
  /\ lastOp.effect.Order = 2 /\ lastOp.effect.Intensity = 6
  /\ lastOp.effect.Duration = 299
  /\ lastOp.result < 18 * Units /\ lastOp.result > 17 * Units

\* ------------------------------------------------------------------------
\* Mutual exclusion of tick and notifications
\* ------------------------------------------------------------------------
\* Update holds the lock and has not returned.
InTick == lastOp.name = "Lock" /\ mutex = "locked"

\* The engine state the tick reads and writes under the lock.
Guarded == <<anomalyBudget, maxBudget, regenerationRate, transformationPhase,
             orderThresholds, activeEffects, availableTriggers, worldState,
             changeHistory, markers>>

\* C25: a notification another thread calls while a tick runs takes effect
\* before the tick has the lock or after it has returned: from the moment
\* Update holds the lock until it returns no step but its own changes the
\* world snapshot or any other engine state.
TickAtomicStep ==
  InTick => \/ lastOp'.name = "Update"
            \/ UNCHANGED Guarded

TickAtomic == [][TickAtomicStep]_vars

TickAtomicWitness ==
  /\ lastOp.name = "Update"
  /\ waiting.name = "SetWeather"
  /\ worldState.Weather # waiting.arg
  /\ mutex = "unlocked"

\* ------------------------------------------------------------------------
\* Rebirth
\* ------------------------------------------------------------------------
\* The step is a run of the notification call.
NotifyStep(call) == lastOp'.name = "Notify" /\ lastOp'.call = call /\ now' = now

\* C26: the maximum budget never decreases; RecordPlayerDeath raises it by
\* 25, sets the available budget to the new maximum and adds one to the
\* cycle counter; no other notification and no tick changes the maximum.
MaxBudgetStep ==
  /\ maxBudget' >= maxBudget
  /\ NotifyStep("RecordPlayerDeath") =>
        /\ maxBudget' = maxBudget + RebirthBonus
        /\ anomalyBudget' = maxBudget'
        /\ worldState'.Cycles = worldState.Cycles + 1
  /\ ~NotifyStep("RecordPlayerDeath") => maxBudget' = maxBudget

MaxBudgetMonotonic == [][MaxBudgetStep]_vars

MaxBudgetMonotonicWitness ==
  /\ lastOp.name = "Notify" /\ lastOp.call = "RecordPlayerDeath"
  /\ lastOp.before < InitialBudget
  /\ maxBudget = InitialBudget + RebirthBonus
  /\ anomalyBudget = maxBudget
  /\ worldState.Cycles = 1

\* ------------------------------------------------------------------------
\* Phase recheck
\* ------------------------------------------------------------------------
\* The phase the claims derive from a progress value (thousandths).
Implied(p) ==
  IF p >= 900 THEN 5 ELSE IF p >= 700 THEN 4 ELSE IF p >= 500 THEN 3
  ELSE IF p >= 250 THEN 2 ELSE 1

ProgressAfter == getTransformationProgress([worldState |-> worldState'])

\* The step is a notification that reached its call of
\* checkTransformationPhaseProgress: a new symbol, a new ritual or a death.
RecheckStep ==
  /\ \E call \in {"AddDiscoveredSymbol", "AddCompletedRitual", "RecordPlayerDeath"} :
        NotifyStep(call)
  /\ worldState' # worldState

\* C27: a phase recheck at progress p and phase q leaves the phase at the
\* larger of q and the phase implied by p (5 from 0.9, 4 from 0.7, 3 from
\* 0.5, 2 from 0.25, else 1).
PhaseRecheckStep ==
  RecheckStep =>
    transformationPhase' = IF Implied(ProgressAfter) > transformationPhase
                           THEN Implied(ProgressAfter) ELSE transformationPhase

PhaseRecheck == [][PhaseRecheckStep]_vars

\* C28: at the end of every tick the phase is at least the phase implied by
\* the progress of that moment, also when the progress rose through
\* SetLocalAnomalyLevel alone since the last recheck.
PhaseTracksProgressStep ==
  TickStep /\ Completed => transformationPhase' >= Implied(ProgressAfter)

PhaseTracksProgress == [][PhaseTracksProgressStep]_vars

\* ------------------------------------------------------------------------
\* Permanent unlock
\* ------------------------------------------------------------------------
\* C29: in every state the threshold of every order from 2 up to the current
\* phase is 0, so these orders are admissible at any progress, and a step
\* that advances the phase appends exactly one phase-change history entry.
UnlockedStep ==
  transformationPhase' > transformationPhase =>
    Logged(changeHistory', NoID, "phase_change", "")
      = Logged(changeHistory, NoID, "phase_change", "") + 1

UnlockedUpToPhase ==
  /\ [](\A o \in Orders : 2 <= o /\ o <= transformationPhase
                              => /\ orderThresholds[o] = 0
                                 /\ isOrderAllowed(mm, o))
  /\ [][UnlockedStep]_vars

\* ------------------------------------------------------------------------
\* Order of the selected effect
\* ------------------------------------------------------------------------
\* The priority (thousandths) from which an order is reached.
OrderPriority == [o \in Orders |->
  CASE o = 5 -> 950 [] o = 4 -> 850 [] o = 3 -> 750 [] o = 2 -> 600 [] o = 1 -> 0]

Reaches(trigger, o) == trigger.MinPhase >= o \/ trigger.Priority >= OrderPriority[o]

\* The highest order the trigger reaches by its min-phase or its priority.
DerivedOrder(trigger) ==
  CHOOSE o \in Orders : /\ Reaches(trigger, o)
                        /\ \A higher \in Orders : higher > o => ~Reaches(trigger, higher)

\* C30: the order of the effect selected for a trigger depends on the trigger
\* alone (5 if min-phase >= 5 or priority >= 0.95, else 4 if >= 4 or >= 0.85,
\* else 3 if >= 3 or >= 0.75, else 2 if >= 2 or >= 0.6, else 1), and every
\* effect the scheduler admits has the order derived from the trigger it
\* consumes.
OrderDerivedStep ==
  TickStep =>
    \A i \in Admitted(lastOp') :
       LET c == lastOp'.considered[i]
       IN effectTemplates(c.Template).Order = DerivedOrder(triggerTemplates(c.Trigger))

OrderDerived ==
  /\ [](lastOp.name = "selectEffectForTrigger" =>
          /\ lastOp.order = DerivedOrder(lastOp.trigger)
          /\ lastOp.result # NoEffect => lastOp.result.Order = lastOp.order)
  /\ [][OrderDerivedStep]_vars

OrderDerivedWitness ==
  /\ lastOp.name = "selectEffectForTrigger"
  /\ lastOp.trigger.MinPhase = 2 /\ lastOp.trigger.Priority < 600
  /\ lastOp.order = 2
  /\ lastOp.result.Template = "twisted_vegetation"

\* ------------------------------------------------------------------------
\* Triggers of equal priority
\* ------------------------------------------------------------------------
Position0(q, x) == CHOOSE i \in DOMAIN q : q[i] = x

\* C31: of two triggers that fire in one tick with the same priority the one
\* declared earlier in the catalog is considered first.
TiesKeepCatalogOrderStep ==
  TickStep =>
    \A a, b \in lastOp'.fired :
       ( /\ Priority(a) = Priority(b)
         /\ Position0(Declared, a) < Position0(Declared, b)
         /\ \E i \in DOMAIN lastOp'.considered : lastOp'.considered[i].Trigger = b )
       => \E i, j \in DOMAIN lastOp'.considered :
             /\ i < j
             /\ lastOp'.considered[i].Trigger = a
             /\ lastOp'.considered[j].Trigger = b

TiesKeepCatalogOrder == [][TiesKeepCatalogOrderStep]_vars

\* ------------------------------------------------------------------------
\* Objects of an instance
\* ------------------------------------------------------------------------
\* The match predicate, from the tags and the position of the object.
Matches(e, effect) ==
  /\ \/ effect.AffectedTags = <<>>
     \/ Range(effect.AffectedTags) \cap ObjectTags[e] # {}
  /\ \/ effect.AffectedArea = NoArea
     \/ LET d == Distance(Position[e], effect.AffectedArea.Center)
        IN /\ d <= effect.AffectedArea.Radius
           /\ falloff(effect.AffectedArea, d) >= MinWeight

CylinderCall(op) == op.name = "isEntityAffectedByEffect" /\ op.area.Type = "cylinder"

\* The object is within the radius and the height of the cylinder.
InsideCylinder(op) ==
  /\ CylinderCall(op)
  /\ op.distance <= op.area.Radius
  /\ 2 * Abs(0 - op.area.CenterY) <= op.area.Height

\* C33: an object inside a cylinder with a falloff kind other than none and
\* farther than the inner distance is weighed as for a sphere and is outside
\* the region when the weight is below 0.05.
CylinderFalloff ==
  ( /\ InsideCylinder(lastOp)
    /\ lastOp.area.Falloff # "none"
    /\ lastOp.distance > lastOp.area.FalloffMin
    /\ falloff(lastOp.area, lastOp.distance) < MinWeight )
  => ~lastOp.result

\* ------------------------------------------------------------------------
\* Recheck at admission
\* ------------------------------------------------------------------------
\* The aggregate anomaly level of the state after the step, recomputed from
\* its local levels and its live instances.
AggregateAfter ==
  updateGlobalAnomalyLevel([worldState |-> worldState',
                            activeEffects |-> activeEffects']).worldState.AnomalyLevel

\* C34: a tick that admits an instance has, when it ends, the instance among
\* the live ones, the aggregate anomaly level computed with it, and the
\* phase rechecked against the progress that contains this level.
AdmissionRecheckStep ==
  TickStep /\ Admitted(lastOp') # {} =>
    /\ DOMAIN activeEffects' \ DOMAIN activeEffects # {}
    /\ worldState'.AnomalyLevel = AggregateAfter
    /\ transformationPhase' >= Implied(ProgressAfter)

AdmissionRecheck == [][AdmissionRecheckStep]_vars

\* ------------------------------------------------------------------------
\* Bounded buffers
\* ------------------------------------------------------------------------
\* The newest n elements of q, in the order of q.
Newest(q, n) ==
  LET k == Min(Len(q), n) IN [i \in 1..k |-> q[Len(q) - k + i]]

HistoryCall(op) == op.name = "recordHistoryEntry"

\* The log after the step is the log before it with some entries appended,
\* cut to its newest 1000.
HistoryStep ==
  \E k \in 0..Len(changeHistory') :
     changeHistory' =
       Newest(changeHistory \o SubSeq(changeHistory', Len(changeHistory') - k + 1,
                                      Len(changeHistory')), 1000)

\* C35: the history log never holds more than 1000 entries; appending to a
\* full log keeps the newest 1000 in their order, and nothing else removes
\* or reorders entries.
HistoryCap ==
  /\ [](Len(changeHistory) <= 1000)
  /\ [](HistoryCall(lastOp) =>
          /\ Len(lastOp.after) <= 1000
          /\ lastOp.after = Newest(Append(lastOp.before, lastOp.entry), 1000))
  /\ [][HistoryStep]_vars

HistoryCapWitness ==
  /\ HistoryCall(lastOp)
  /\ Len(lastOp.before) = 1000 /\ Len(lastOp.after) = 1000
  /\ lastOp.after[1000] = lastOp.entry
  /\ lastOp.after[1] = lastOp.before[2]
  /\ lastOp.before[1] \notin Range(lastOp.after)

ActionCall(op) == op.name = "AddPlayerAction"

\* The buffer after AddPlayerAction is the buffer before it with the new
\* action at its end, cut to the newest 100.
RecentActionsStep ==
  NotifyStep("AddPlayerAction") =>
    \E k \in {0, 1} :
       /\ Len(worldState'.RecentPlayerActions) = Len(worldState.RecentPlayerActions) + 1 - k
       /\ worldState'.RecentPlayerActions =
            Newest(worldState.RecentPlayerActions
                     \o <<worldState'.RecentPlayerActions[Len(worldState'.RecentPlayerActions)]>>,
                   100)

\* C36: the buffer of recent actions holds at most 100 actions, the most
\* recent ones in the order of their arrival; an action added to a full
\* buffer evicts the oldest action and no other.
RecentActionsCap ==
  /\ [](Len(worldState.RecentPlayerActions) <= 100)
  /\ [](ActionCall(lastOp) =>
          /\ Len(lastOp.after) <= 100
          /\ lastOp.after = Newest(Append(lastOp.before, lastOp.action), 100)
          /\ Len(lastOp.before) = 100 =>
                lastOp.after = Append(Tail(lastOp.before), lastOp.action))
  /\ [][RecentActionsStep]_vars

RecentActionsCapWitness ==
  /\ ActionCall(lastOp)
  /\ Len(lastOp.before) = 100 /\ Len(lastOp.after) = 100
  /\ lastOp.after[100] = lastOp.action
  /\ lastOp.after[1] = lastOp.before[2]
  /\ lastOp.before[1] \notin Range(lastOp.after)

\* ------------------------------------------------------------------------
\* Restored instances
\* ------------------------------------------------------------------------
\* The instances with a finite duration that LoadState restored: the step
\* starts in the state the construction left.
RestoredFinite ==
  IF lastOp = NoOp /\ stateFile.Status = "ok"
  THEN {id \in DOMAIN activeEffects : activeEffects[id].Duration > 0}
  ELSE {}

\* C37: the first tick after a load, at the instant of the load, expires no
\* restored instance of finite duration: each was live when the state was
\* saved and its duration has not run out since.
RestoredSurvivesStep ==
  TickStep /\ now = 0 => RestoredFinite \subseteq DOMAIN activeEffects'

RestoredSurvives == [][RestoredSurvivesStep]_vars

\* ------------------------------------------------------------------------
\* Trigger pool
\* ------------------------------------------------------------------------
PoolCall(op) == op.name = "generateInitialTriggers"

\* An admission of the step is the first of the run and is taken from a pool
\* that is not empty.
AdmissionFromPoolStep ==
  TickStep /\ Admitted(lastOp') # {} =>
    /\ Cardinality(Admitted(lastOp')) = 1
    /\ lastOp'.considered[CHOOSE i \in Admitted(lastOp') : TRUE].Trigger
         \in availableTriggers
    /\ Created(changeHistory) = {} /\ blocked = "none"

\* C38: the trigger pool holds at most 5 triggers, taken from the templates
\* at default initialization; no step adds a trigger to it, and the
\* admissions of a run are no more than the triggers of the initial pool.
PoolNeverGrows ==
  /\ [](Cardinality(availableTriggers) <= 5)
  /\ [](PoolCall(lastOp) => /\ Cardinality(lastOp.pool) <= 5
                            /\ lastOp.pool \subseteq lastOp.templates)
  /\ [][availableTriggers' \subseteq availableTriggers]_vars
  /\ [][AdmissionFromPoolStep]_vars

PoolNeverGrowsWitness ==
  /\ lastOp.name = "Update" /\ Admitted(lastOp) # {}
  /\ blocked = "applyMetamorphEffect"
  /\ Cardinality(availableTriggers) = 2
  /\ stateFile.Status = "missing"

\* ------------------------------------------------------------------------
\* Progress of the scheduler
\* ------------------------------------------------------------------------
\* The trigger waits in the pool of a running game with its predicate true,
\* its order admissible and every template of that order affordable.
Ready(id) ==
  LET order == getEffectOrderForTrigger(triggerTemplates(id))
  IN /\ isRunning
     /\ id \in availableTriggers
     /\ Check(triggerTemplates(id), worldState)
     /\ isOrderAllowed(mm, order)
     /\ \A effect \in suitableTemplates(order) : canAffordEffect(mm, effect)

\* C39: under fair ticking no trigger stays in the pool forever with its
\* predicate true, its order admissible and its templates affordable: it is
\* eventually admitted and removed from the pool.
TriggerServed == \A id \in TriggerIDs : []<>(~Ready(id))
====
